---- MODULE Spec2Model ----
(***************************************************************************)
(* Layout engine of collage-maker (src/main.py): calculate_layout and the  *)
(* paste loop of create_collage.                                           *)
(*                                                                         *)
(* Lists are 1-based sequences here; the source's 0-based row/col indices  *)
(* (config["row"] - 1, config["col"] - 1) therefore appear as config.row   *)
(* and config.col directly.                                                *)
(*                                                                         *)
(* Python floats are IEEE-754 doubles.  Every float the layout code        *)
(* produces lies within a few units in the last place of a small rational, *)
(* so a float is held exactly as a record [num, den, err] standing for     *)
(*        num/den - err / (den * 2^RefExp)                                 *)
(* and every float operation rounds to 53 significant bits, to nearest,    *)
(* ties to even, with the remainders computed by modular arithmetic.       *)
(***************************************************************************)
EXTENDS Integers, Sequences, FiniteSets, TLC

\* ---------------------------------------------------------------- bounds
MaxImages == 2
MaxRows == 2
MaxCols == 3
MaxSpacing == 2
\* rules with one image spanning a whole single row
MaxWideSpan == 11
MaxWideWidth == 15
\* grid rules are also run with longer image lists
MaxGridImages == 4
\* explicit rules are also run alone, on a smaller grid
MaxSizingRows == 2
MaxSizingCols == 2
MaxSizingImages == 2

\* sizes of the input images
ImageSizes == {[w |-> 4, h |-> 3], [w |-> 11, h |-> 5]}

\* summation algorithm of the builtin sum() over floats: plain left-to-right
\* additions (CPython up to 3.11) or compensated summation (CPython 3.12 on)
SumImpls == {"naive", "compensated"}

\* ------------------------------------------------------ integer helpers
Max(a, b) == IF a >= b THEN a ELSE b

RECURSIVE Pow2(_)
Pow2(n) == IF n <= 0 THEN 1 ELSE 2 * Pow2(n - 1)

RECURSIVE Gcd(_, _)
Gcd(a, b) == IF b = 0 THEN a ELSE Gcd(b, a % b)

Lcm(a, b) == (a \div Gcd(a, b)) * b

\* (a * b) % m without leaving TLC's integer range
RECURSIVE MulMod(_, _, _)
MulMod(a, b, m) ==
    IF b = 0 THEN 0
    ELSE LET half == MulMod(a, b \div 2, m)
         IN  (2 * half + (IF b % 2 = 1 THEN a % m ELSE 0)) % m

\* 2^k % m
RECURSIVE PowMod2(_, _)
PowMod2(k, m) ==
    IF k = 0 THEN 1 % m
    ELSE LET half == PowMod2(k \div 2, m)
             sq == MulMod(half, half, m)
         IN  IF k % 2 = 1 THEN (2 * sq) % m ELSE sq

\* floor(log2(num/den)) for num, den > 0
RECURSIVE Log2Floor(_, _)
Log2Floor(num, den) ==
    IF num >= den
    THEN IF num >= 2 * den THEN 1 + Log2Floor(num, 2 * den) ELSE 0
    ELSE Log2Floor(2 * num, den) - 1

\* num/den is a power of two
IsPow2(num, den) ==
    LET e == Log2Floor(num, den)
    IN  IF e >= 0 THEN num = den * Pow2(e) ELSE num * Pow2(-e) = den

\* ------------------------------------------------- IEEE-754 double model
\* stored bits of a double's significand
MantissaBits == 52
\* binary places kept below 1: every positive float of the model is at least
\* 1/Max(MaxWideSpan, MaxCols), well above 2^-GuardBits
GuardBits == 3 + Log2Floor(Max(MaxWideSpan, MaxCols), 1)
RefExp == MantissaBits + GuardBits

FromInt(n) == [num |-> n, den |-> 1, err |-> 0]

Normal(x) ==
    LET g == Gcd(x.num, x.den)
    IN  [num |-> x.num \div g, den |-> x.den \div g, err |-> x.err \div g]

\* the double nearest to the exact value x (ties to even)
Round(x) ==
    IF x.num = 0 THEN FromInt(0)
    ELSE LET ex == Log2Floor(x.num, x.den)
                   - (IF IsPow2(x.num, x.den) /\ x.err > 0 THEN 1 ELSE 0)
             D == x.den * Pow2(GuardBits + ex)
             r2 == (MulMod(x.num % (2 * D), PowMod2(RefExp, 2 * D), 2 * D)
                    - x.err) % (2 * D)
             rem == r2 % D
             odd == r2 \div D
             down == 2 * rem < D \/ (2 * rem = D /\ odd = 0)
         IN  Normal([num |-> x.num, den |-> x.den,
                     err |-> IF down THEN x.err + rem ELSE x.err - (D - rem)])

\* exact sum of two floats, not yet rounded
AddExact(x, y) ==
    LET l == Lcm(x.den, y.den)
    IN  [num |-> x.num * (l \div x.den) + y.num * (l \div y.den),
         den |-> l,
         err |-> x.err * (l \div x.den) + y.err * (l \div y.den)]

\* x + y
FAdd(x, y) == Round(AddExact(x, y))

\* n / s for ints (true division)
IntDiv(n, s) == Round([num |-> n, den |-> s, err |-> 0])

\* x / w for a float x and an int w
FDivInt(x, w) == Round([num |-> x.num, den |-> x.den * w, err |-> x.err])

\* a * x for an int a and a float x
IntMulF(a, x) == Round([num |-> a * x.num, den |-> x.den, err |-> a * x.err])

\* int(x) for x >= 0
Trunc(x) ==
    IF x.num % x.den = 0 /\ x.err > 0
    THEN (x.num \div x.den) - 1
    ELSE x.num \div x.den

\* x < y
FLess(x, y) ==
    \/ x.num * y.den < y.num * x.den
    \/ x.num * y.den = y.num * x.den /\ x.err * y.den > y.err * x.den

\* max(x, y): the first of the largest
FMax(x, y) == IF FLess(x, y) THEN y ELSE x

RECURSIVE SumNaive(_, _, _)
SumNaive(f, lo, hi) ==
    IF lo > hi THEN FromInt(0) ELSE FAdd(SumNaive(f, lo, hi - 1), f[hi])

RECURSIVE SumExact(_, _, _)
SumExact(f, lo, hi) ==
    IF lo > hi THEN FromInt(0) ELSE AddExact(SumExact(f, lo, hi - 1), f[hi])

\* sum(f[lo..hi]) as the interpreter build impl computes it
PySum(impl, f, lo, hi) ==
    IF impl = "naive" THEN SumNaive(f, lo, hi) ELSE Round(SumExact(f, lo, hi))

\* ----------------------------------------------------------------- state
VARIABLES
    rule,            \* [kind, rows, columns, images]: the rule argument
    img_objects,     \* sequence of image sizes [w, h]; pass 2 replaces entries
    sizes,           \* the sizes of the input images as passed in (never changed)
    margin_spacing,
    py_sum,          \* the interpreter's sum() algorithm
    row_heights,     \* sequence of ints
    col_widths,      \* sequence of floats
    layout,          \* sequence of [x, y]
    collage_w,
    collage_h,
    pc,              \* "call", "pass1", "pass2", "positions", "returned",
                     \* "raised", "pasting", "saved", "paste_raised"
    idx,             \* position of the running loop
    error,           \* name of the exception raised, "" if none
    pastes           \* sequence of [x, y, w, h]: the paste calls made

vars == <<rule, img_objects, sizes, margin_spacing, py_sum, row_heights,
          col_widths, layout, collage_w, collage_h, pc, idx, error, pastes>>

configs == rule.images

\* ------------------------------------------------------------ the inputs
\* a config holds its span as read by config.get("span", 1)
Configs(maxRow, maxCol) ==
    [row : 1..maxRow, col : 1..maxCol, span : 1..maxCol]

SeqsUpTo(S, n) == UNION {[1..k -> S] : k \in 0..n}

ExplicitRulesUpTo(maxRow, maxCol, maxLen) ==
    {[kind |-> "dict", rows |-> r, columns |-> c, images |-> cs] :
        r \in 1..maxRow, c \in 1..maxCol,
        cs \in SeqsUpTo(Configs(maxRow, maxCol), maxLen)}

ExplicitRules == ExplicitRulesUpTo(MaxRows, MaxCols, MaxImages)

GridRules ==
    {[kind |-> "int", rows |-> 0, columns |-> c, images |-> <<>>] :
        c \in 0..MaxCols}

\* anything that is neither a dict nor an int, such as the default None
OtherRule == [kind |-> "other", rows |-> 0, columns |-> 0, images |-> <<>>]

\* one image spanning all the columns of a single row
WideRules ==
    {[kind |-> "dict", rows |-> 1, columns |-> s,
      images |-> <<[row |-> 1, col |-> 1, span |-> s]>>] : s \in 1..MaxWideSpan}

\* the worked example of the design document: three images, two columns
Scenario ==
    [rule |-> [kind |-> "int", rows |-> 0, columns |-> 2, images |-> <<>>],
     sizes |-> <<[w |-> 100, h |-> 100], [w |-> 200, h |-> 100],
                 [w |-> 100, h |-> 200]>>,
     spacing |-> 10]

Start(r, imgs, s, impl) ==
    /\ rule = r
    /\ img_objects = imgs
    /\ sizes = imgs
    /\ margin_spacing = s
    /\ py_sum = impl
    /\ row_heights = <<>>
    /\ col_widths = <<>>
    /\ layout = <<>>
    /\ collage_w = 0
    /\ collage_h = 0
    /\ pc = "call"
    /\ idx = 0
    /\ error = ""
    /\ pastes = <<>>

Init ==
    \/ \E r \in ExplicitRules \cup GridRules \cup {OtherRule},
          imgs \in SeqsUpTo(ImageSizes, MaxImages),
          s \in 0..MaxSpacing, impl \in SumImpls :
            Start(r, imgs, s, impl)
    \/ \E r \in WideRules, w \in 2..MaxWideWidth, h \in {5, 13},
          s \in 0..1, impl \in SumImpls :
            Start(r, <<[w |-> w, h |-> h]>>, s, impl)
    \/ \E impl \in SumImpls :
            Start(Scenario.rule, Scenario.sizes, Scenario.spacing, impl)

\* calls with an explicit rule only
InitSizing ==
    \E r \in ExplicitRulesUpTo(MaxSizingRows, MaxSizingCols, MaxSizingImages),
       imgs \in SeqsUpTo({[w |-> 4, h |-> 3]}, MaxSizingImages) :
         Start(r, imgs, 1, "naive")

\* calls with a grid rule only
InitGrid ==
    \/ \E r \in GridRules, imgs \in SeqsUpTo(ImageSizes, MaxGridImages),
          s \in 0..MaxSpacing, impl \in SumImpls :
            Start(r, imgs, s, impl)
    \/ \E impl \in SumImpls :
            Start(Scenario.rule, Scenario.sizes, Scenario.spacing, impl)

\* ------------------------------------------------- calculate_layout, dict
\* configs.index(config): the first position holding an equal config
IndexOf(cs, config) == CHOOSE k \in 1..Len(cs) :
    /\ cs[k] = config
    /\ \A j \in 1..(k - 1) : cs[j] # config

\* the columns col .. col+span-1 of a config
Spanned(config) == config.col .. (config.col + config.span - 1)

\* as Pass1Raises, were a span past the last column clipped like a slice
Pass1RaisesSpanClipped(config) ==
    \/ IndexOf(configs, config) > Len(img_objects)
    \/ config.col > rule.columns
    \/ config.row > rule.rows

\* an iteration of the first loop raises IndexError: the image lookup, the
\* read of col_widths[c] or the read of row_heights[row] is out of range
Pass1Raises(config) ==
    \/ IndexOf(configs, config) > Len(img_objects)
    \/ config.col + config.span - 1 > rule.columns
    \/ config.row > rule.rows

\* scaled_w = (w + (span - 1) * margin_spacing) / span
ScaledW(w, span, spacing) == IntDiv(w + (span - 1) * spacing, span)

\* the max() of the first loop
WidenColumn(old, scaled_w) == FMax(old, scaled_w)

\* total = sum(col_widths[col : col + span]) + (span - 1) * margin_spacing
Total(impl, widths, config, spacing) ==
    FAdd(PySum(impl, widths, config.col, config.col + config.span - 1),
         FromInt((config.span - 1) * spacing))

\* int(a * scale) with scale = total / w
Rescaled(a, total, w) == Trunc(IntMulF(a, FDivInt(total, w)))

EnterExplicit ==
    /\ pc = "call"
    /\ rule.kind = "dict"
    /\ row_heights' = [r \in 1..rule.rows |-> 0]
    /\ col_widths' = [c \in 1..rule.columns |-> FromInt(0)]
    /\ pc' = IF Len(configs) = 0 THEN "positions" ELSE "pass1"
    /\ idx' = 1
    /\ UNCHANGED <<rule, img_objects, sizes, margin_spacing, py_sum, layout,
                   collage_w, collage_h, error, pastes>>

Pass1Step ==
    /\ pc = "pass1"
    /\ LET config == configs[idx]
       IN  IF Pass1Raises(config)
           THEN /\ pc' = "raised"
                /\ error' = "IndexError"
                /\ UNCHANGED <<col_widths, row_heights, idx>>
           ELSE LET img == img_objects[IndexOf(configs, config)]
                    scaled_w == ScaledW(img.w, config.span, margin_spacing)
                IN  /\ col_widths' =
                          [c \in 1..rule.columns |->
                              IF c \in Spanned(config)
                              THEN WidenColumn(col_widths[c], scaled_w)
                              ELSE col_widths[c]]
                    /\ row_heights' =
                          [row_heights EXCEPT ![config.row] = Max(@, img.h)]
                    /\ pc' = IF idx = Len(configs) THEN "pass2" ELSE "pass1"
                    /\ idx' = IF idx = Len(configs) THEN 1 ELSE idx + 1
                    /\ error' = error
    /\ UNCHANGED <<rule, img_objects, sizes, margin_spacing, py_sum, layout,
                   collage_w, collage_h, pastes>>

Pass2Step ==
    /\ pc = "pass2"
    /\ LET config == configs[idx]
           k == IndexOf(configs, config)
           img == img_objects[k]
       IN  IF img.w = 0
           THEN /\ pc' = "raised"
                /\ error' = "ZeroDivisionError"
                /\ UNCHANGED <<img_objects, row_heights, idx>>
           ELSE LET total == Total(py_sum, col_widths, config, margin_spacing)
                    new_w == Rescaled(img.w, total, img.w)
                    new_h == Rescaled(img.h, total, img.w)
                IN  /\ img_objects' =
                          [img_objects EXCEPT ![k] = [w |-> new_w, h |-> new_h]]
                    /\ row_heights' =
                          [row_heights EXCEPT ![config.row] = Max(@, new_h)]
                    /\ pc' = IF idx = Len(configs) THEN "positions" ELSE "pass2"
                    /\ idx' = IF idx = Len(configs) THEN 1 ELSE idx + 1
                    /\ error' = error
    /\ UNCHANGED <<rule, sizes, margin_spacing, py_sum, col_widths, layout,
                   collage_w, collage_h, pastes>>

\* x when the scan reaches column c: x += int(col_w + margin_spacing)
RECURSIVE XAt(_, _, _)
XAt(widths, spacing, c) ==
    IF c = 1 THEN spacing
    ELSE XAt(widths, spacing, c - 1)
         + Trunc(FAdd(widths[c - 1], FromInt(spacing)))

\* y when the scan reaches row r: y += int(row_h + margin_spacing)
RECURSIVE YAt(_, _, _)
YAt(heights, spacing, r) ==
    IF r = 1 THEN spacing
    ELSE YAt(heights, spacing, r - 1) + heights[r - 1] + spacing

\* the position emitted for a cell
CellPos(r, c) ==
    [x |-> XAt(col_widths, margin_spacing, c),
     y |-> YAt(row_heights, margin_spacing, r)]

\* some config names the cell (the inner loop breaks at the first)
Claimed(r, c) == \E k \in 1..Len(configs) :
    configs[k].row = r /\ configs[k].col = c

\* the positions appended while scanning the columns c.. of row r
RECURSIVE ScanRow(_, _)
ScanRow(r, c) ==
    IF c > rule.columns THEN <<>>
    ELSE (IF Claimed(r, c) THEN <<CellPos(r, c)>> ELSE <<>>) \o ScanRow(r, c + 1)

\* the positions appended while scanning the rows r..
RECURSIVE ScanRows(_)
ScanRows(r) ==
    IF r > rule.rows THEN <<>> ELSE ScanRow(r, 1) \o ScanRows(r + 1)

RECURSIVE SumInts(_, _)
SumInts(f, n) == IF n = 0 THEN 0 ELSE SumInts(f, n - 1) + f[n]

\* collage_w = int(sum(col_widths) + (cols + 1) * margin_spacing)
CanvasW(impl, widths, cols, spacing) ==
    Trunc(FAdd(PySum(impl, widths, 1, cols), FromInt((cols + 1) * spacing)))

\* collage_h = int(sum(row_heights) + (rows + 1) * margin_spacing)
CanvasH(heights, rows, spacing) == SumInts(heights, rows) + (rows + 1) * spacing

Positions ==
    /\ pc = "positions"
    /\ collage_w' = CanvasW(py_sum, col_widths, rule.columns, margin_spacing)
    /\ collage_h' = CanvasH(row_heights, rule.rows, margin_spacing)
    /\ layout' = ScanRows(1)
    /\ pc' = "returned"
    /\ idx' = 1
    /\ UNCHANGED <<rule, img_objects, sizes, margin_spacing, py_sum,
                   row_heights, col_widths, error, pastes>>

\* -------------------------------------------------- calculate_layout, int
\* sum(...) // len(img_sizes)
RECURSIVE SumW(_, _)
SumW(imgs, n) == IF n = 0 THEN 0 ELSE SumW(imgs, n - 1) + imgs[n].w
RECURSIVE SumH(_, _)
SumH(imgs, n) == IF n = 0 THEN 0 ELSE SumH(imgs, n - 1) + imgs[n].h

AvgWidth(imgs) == SumW(imgs, Len(imgs)) \div Len(imgs)
AvgHeight(imgs) == SumH(imgs, Len(imgs)) \div Len(imgs)

\* rows = math.ceil(len(img_objects) / rule) if rule else 1
GridRows(n, columns) ==
    IF columns # 0 THEN (n + columns - 1) \div columns ELSE 1

\* cols = rule if rule else len(img_objects)
GridCols(n, columns) == IF columns # 0 THEN columns ELSE n

\* as GridCell, with the roles of row and col exchanged
GridCellTransposed(row, col, avg_width, avg_height, spacing) ==
    [x |-> spacing + row * (avg_width + spacing),
     y |-> spacing + col * (avg_height + spacing)]

\* one element of the list comprehension; row and col count from 0
GridCell(row, col, avg_width, avg_height, spacing) ==
    [x |-> spacing + col * (avg_width + spacing),
     y |-> spacing + row * (avg_height + spacing)]

RECURSIVE GridRow(_, _, _, _, _, _)
GridRow(row, col, cols, aw, ah, spacing) ==
    IF col >= cols THEN <<>>
    ELSE <<GridCell(row, col, aw, ah, spacing)>>
         \o GridRow(row, col + 1, cols, aw, ah, spacing)

\* for row in range(rows) for col in range(cols)
RECURSIVE GridCells(_, _, _, _, _, _)
GridCells(row, rows, cols, aw, ah, spacing) ==
    IF row >= rows THEN <<>>
    ELSE GridRow(row, 0, cols, aw, ah, spacing)
         \o GridCells(row + 1, rows, cols, aw, ah, spacing)

GridLayout ==
    /\ pc = "call"
    /\ rule.kind = "int"
    /\ IF Len(img_objects) = 0
       THEN /\ pc' = "raised"
            /\ error' = "ZeroDivisionError"
            /\ UNCHANGED <<layout, collage_w, collage_h, idx>>
       ELSE LET n == Len(img_objects)
                aw == AvgWidth(img_objects)
                ah == AvgHeight(img_objects)
                rows == GridRows(n, rule.columns)
                cols == GridCols(n, rule.columns)
            IN  /\ collage_w' = cols * aw + (cols - 1) * margin_spacing
                                + 2 * margin_spacing
                /\ collage_h' = rows * ah + (rows - 1) * margin_spacing
                                + 2 * margin_spacing
                /\ layout' = GridCells(0, rows, cols, aw, ah, margin_spacing)
                /\ pc' = "returned"
                /\ idx' = 1
                /\ error' = error
    /\ UNCHANGED <<rule, img_objects, sizes, margin_spacing, py_sum,
                   row_heights, col_widths, pastes>>

\* raise ValueError("Invalid layout type specified.")
InvalidRule ==
    /\ pc = "call"
    /\ rule.kind = "other"
    /\ pc' = "raised"
    /\ error' = "ValueError"
    /\ UNCHANGED <<rule, img_objects, sizes, margin_spacing, py_sum,
                   row_heights, col_widths, layout, collage_w, collage_h,
                   idx, pastes>>

\* ------------------------------------------------ create_collage, pasting
\* create_collage calls calculate_layout only with at least one image
Paste ==
    /\ pc \in {"returned", "pasting"}
    /\ Len(img_objects) > 0
    /\ IF idx > Len(layout)
       THEN /\ pc' = "paste_raised"
            /\ error' = "IndexError"
            /\ UNCHANGED <<pastes, idx>>
       ELSE /\ pastes' = Append(pastes,
                             [x |-> layout[idx].x, y |-> layout[idx].y,
                              w |-> img_objects[idx].w, h |-> img_objects[idx].h])
            /\ pc' = IF idx = Len(img_objects) THEN "saved" ELSE "pasting"
            /\ idx' = idx + 1
            /\ error' = error
    /\ UNCHANGED <<rule, img_objects, sizes, margin_spacing, py_sum,
                   row_heights, col_widths, layout, collage_w, collage_h>>

Next ==
    \/ EnterExplicit
    \/ Pass1Step
    \/ Pass2Step
    \/ Positions
    \/ GridLayout
    \/ InvalidRule
    \/ Paste

Spec == Init /\ [][Next]_vars

\* the dict branch and the paste loop alone
NextSizing ==
    \/ EnterExplicit
    \/ Pass1Step
    \/ Pass2Step
    \/ Positions
    \/ Paste

SpecSizing == InitSizing /\ [][NextSizing]_vars

\* the grid branch and the paste loop alone
NextGrid ==
    \/ GridLayout
    \/ Paste

SpecGrid == InitGrid /\ [][NextGrid]_vars

\* ------------------------------------------------------------ vocabulary
\* calculate_layout has returned its result to the caller
Returned == pc \in {"returned", "pasting", "saved", "paste_raised"}

\* both sizing loops of the dict branch have finished
Sized == rule.kind = "dict" /\ (pc = "positions" \/ Returned)

NumImages == Len(sizes)

InRange(config) ==
    /\ config.row <= rule.rows
    /\ config.col + config.span - 1 <= rule.columns

\* an explicit rule with one config per image, every cell inside the grid
\* and no cell named twice
ValidRule ==
    /\ rule.kind = "dict"
    /\ Len(configs) = NumImages
    /\ \A k \in 1..Len(configs) : InRange(configs[k])
    /\ \A j, k \in 1..Len(configs) :
          j # k => ~(configs[j].row = configs[k].row
                     /\ configs[j].col = configs[k].col)

\* the configs are listed row by row, left to right
RowMajor == \A j, k \in 1..Len(configs) :
    j < k => \/ configs[j].row < configs[k].row
             \/ /\ configs[j].row = configs[k].row
                /\ configs[j].col < configs[k].col

\* no two configs of a row share a column
SpansDisjoint == \A j, k \in 1..Len(configs) :
    (j # k /\ configs[j].row = configs[k].row)
        => Spanned(configs[j]) \cap Spanned(configs[k]) = {}

\* floor(a * x / w), exactly, for a float x
ExactFloor(a, x, w) ==
    Trunc([num |-> a * x.num, den |-> x.den * w, err |-> a * x.err])

Abs(n) == IF n < 0 THEN -n ELSE n

SetMax(S) == IF S = {} THEN 0 ELSE CHOOSE m \in S : \A n \in S : n <= m

\* ---------------------------------------------------------------- claims

\* C1: explicit mode, valid rule: the i-th layout entry is the position of
\* the cell named by config[i], whatever the order of the configs.
C1_PlacementFollowsImageIndex ==
    (Returned /\ ValidRule) =>
        /\ Len(layout) = NumImages
        /\ \A i \in 1..NumImages :
              i <= Len(layout)
                  => layout[i] = CellPos(configs[i].row, configs[i].col)

\* C2: for an explicit rule with one config per image or a grid rule, and at
\* least one image, the returned layout has exactly one entry per image.
C2_OnePlacementPerImage ==
    (/\ Returned
     /\ NumImages >= 1
     /\ \/ rule.kind = "int"
        \/ rule.kind = "dict" /\ Len(configs) = NumImages)
        => Len(layout) = NumImages

\* C3: explicit mode, spacing >= 1, valid rule: the canvas width is the
\* truncated sum of the column widths plus (columns + 1) * spacing, and no
\* image placed at its layout entry passes the right or bottom canvas edge.
C3_NoOverflowPastCanvas ==
    (Returned /\ ValidRule /\ margin_spacing >= 1) =>
        /\ collage_w = Trunc(FAdd(PySum(py_sum, col_widths, 1, rule.columns),
                                  FromInt((rule.columns + 1) * margin_spacing)))
        /\ \A i \in 1..NumImages :
              i <= Len(layout) =>
                  /\ layout[i].x + img_objects[i].w <= collage_w
                  /\ layout[i].y + img_objects[i].h <= collage_h

\* C4: grid mode: entry i (from 0) is at x = spacing + (i mod C) *
\* (cellWidth + spacing), y = spacing + (i div C) * (cellHeight + spacing),
\* C = columns or, for columns = 0, the image count; columns = 0 puts all
\* images in one row; the worked example yields (10,10), (153,10), (10,153).
C4_GridPositions ==
    (Returned /\ rule.kind = "int") =>
        LET c == IF rule.columns > 0 THEN rule.columns ELSE NumImages
            cellWidth == SumW(sizes, NumImages) \div NumImages
            cellHeight == SumH(sizes, NumImages) \div NumImages
        IN  /\ \A i \in 0..(NumImages - 1) :
                  /\ i + 1 <= Len(layout)
                  /\ layout[i + 1].x =
                        margin_spacing + (i % c) * (cellWidth + margin_spacing)
                  /\ layout[i + 1].y =
                        margin_spacing + (i \div c) * (cellHeight + margin_spacing)
                  /\ rule.columns = 0 => layout[i + 1].y = margin_spacing
            /\ rule.columns = 0 => Len(layout) = NumImages
            /\ (/\ sizes = Scenario.sizes
                /\ rule = Scenario.rule
                /\ margin_spacing = Scenario.spacing)
                  => /\ layout[1] = [x |-> 10, y |-> 10]
                     /\ layout[2] = [x |-> 153, y |-> 10]
                     /\ layout[3] = [x |-> 10, y |-> 153]

\* a grid layout with a second row and a positive spacing has been returned
C4_Witness ==
    /\ Returned
    /\ rule.kind = "int"
    /\ rule.columns >= 1
    /\ NumImages > rule.columns
    /\ margin_spacing > 0

\* C5: calculate_layout called with zero images never returns a layout, on
\* the grid path and on the explicit path alike.
C5_ZeroImagesRaise ==
    (NumImages = 0 /\ rule.kind \in {"dict", "int"}) => ~Returned

\* C6: an explicit rule whose config list is shorter or longer than the image
\* list never gets a layout returned.
C6_LengthMismatchRejected ==
    (rule.kind = "dict" /\ Len(configs) # NumImages) => ~Returned

\* a config whose span runs past the declared grid
BadSpan(config) == (config.col - 1) + config.span > rule.columns

FirstBadSpan == CHOOSE k \in 1..Len(configs) :
    /\ BadSpan(configs[k])
    /\ \A j \in 1..(k - 1) : ~BadSpan(configs[j])

\* C7: explicit mode: when some config's span runs past the grid, the first
\* loop never gets past the first such config and the call can only end by
\* raising IndexError, at that config or before it; no layout or canvas size
\* is produced and no image has been resized.
C7_SpanPastGridFailsFast ==
    (rule.kind = "dict" /\ \E k \in 1..Len(configs) : BadSpan(configs[k])) =>
        /\ pc \in {"call", "pass1", "raised"}
        /\ pc = "pass1" => idx <= FirstBadSpan
        /\ pc = "raised" => (error = "IndexError" /\ idx <= FirstBadSpan)
        /\ layout = <<>>
        /\ collage_w = 0
        /\ collage_h = 0
        /\ img_objects = sizes

\* the error was raised at the first config whose span runs past the grid,
\* after an earlier config had been sized, and for no other reason
C7_Witness ==
    /\ rule.kind = "dict"
    /\ pc = "raised"
    /\ error = "IndexError"
    /\ \E k \in 1..Len(configs) : BadSpan(configs[k])
    /\ idx = FirstBadSpan
    /\ idx > 1
    /\ configs[idx].row <= rule.rows
    /\ IndexOf(configs, configs[idx]) <= Len(img_objects)

\* C8: explicit mode, pass 2: an image of size (w, h) whose spanned columns
\* and gaps total `total` is resized to (floor(total), floor(h * total / w)),
\* so |new_h * w - new_w * h| < max(w, h).
C8_RescaleIsExact ==
    (Sized /\ ValidRule) =>
        \A i \in 1..NumImages :
            LET total == Total(py_sum, col_widths, configs[i], margin_spacing)
                w == sizes[i].w
                h == sizes[i].h
                new_w == img_objects[i].w
                new_h == img_objects[i].h
            IN  /\ new_w = Trunc(total)
                /\ new_h = ExactFloor(h, total, w)
                /\ Abs(new_h * w - new_w * h) < Max(w, h)

\* C9: explicit mode, valid rule listed in row-major order with disjoint
\* spans: an image ends at or before the x of any image further right in its
\* row, and at or before the y of any image in a lower row.
C9_NoOverlap ==
    (Returned /\ ValidRule /\ RowMajor /\ SpansDisjoint) =>
        \A i, j \in 1..NumImages :
            (i <= Len(layout) /\ j <= Len(layout)) =>
                /\ (/\ configs[i].row = configs[j].row
                    /\ configs[i].col + configs[i].span <= configs[j].col)
                      => layout[i].x + img_objects[i].w <= layout[j].x
                /\ configs[i].row < configs[j].row
                      => layout[i].y + img_objects[i].h <= layout[j].y

\* C10: explicit mode, valid rule: no image is resized below its original
\* width or height, and each row's final height is the largest rescaled
\* height among the images of that row.
C10_NeverShrinks ==
    (Sized /\ ValidRule) =>
        /\ \A i \in 1..NumImages :
              /\ img_objects[i].w >= sizes[i].w
              /\ img_objects[i].h >= sizes[i].h
        /\ \A r \in 1..rule.rows :
              row_heights[r] =
                  SetMax({img_objects[i].h :
                            i \in {k \in 1..NumImages : configs[k].row = r}})

====
